---- MODULE Spec2Model ----
(***************************************************************************)
(* Model of pibridge's hotspot lifecycle (src/hotspot.py, HotspotManager). *)
(* The operating system is the shared state: the hostapd and dnsmasq       *)
(* processes, the files under /tmp and the addresses of the interface.     *)
(* Every external command of the source is one step of the caller that     *)
(* issues it; its exit status is drawn from the outcomes the command has.  *)
(***************************************************************************)
EXTENDS Integers, Sequences, FiniteSets, TLC

\* ------------------------------------------------------------------ bounds
\* Operations one caller runs one after the other.
MaxOps == 3
\* Processes of one daemon role that may exist at the same time.
MaxProcs == 2
\* Lines of the first candidate lease file.
MaxLines == 2

\* --------------------------------------------------------------- constants
DefaultChannel == 6

\* Two threads of the web server (or two command-line runs) that call the manager.
Callers == {"a", "b"}
Roles == {"hostapd", "dnsmasq"}

\* /tmp/pibridge_hostapd.conf, /tmp/pibridge_dnsmasq.conf, /tmp/hostapd.log
HostapdConf == "/tmp/pibridge_hostapd.conf"
DnsmasqConf == "/tmp/pibridge_dnsmasq.conf"
HostapdLog == "/tmp/hostapd.log"
ConfFiles == {HostapdConf, DnsmasqConf}
CleanupOrder == <<HostapdConf, DnsmasqConf, HostapdLog>>

\* Addresses are texts, kept as sequences of their pieces so that Python's
\* substring test (the "in" operator on str) can be computed on them.
IpHotspot == <<"192.168.4.", "1">>
IpLease10 == <<"192.168.4.", "1", "0">>
IpLease23 == <<"192.168.4.", "2", "3">>

None == "None"

\* A configuration record as Python holds it: a dict, whose keys may be absent.
DefaultConfig ==
    [keys |-> {"ssid", "password", "interface", "ip_address", "dhcp_start",
               "dhcp_end", "channel", "country_code"},
     val  |-> [ssid |-> "pibridge", password |-> "pibridge123",
               interface |-> "wlan0", ip_address |-> IpHotspot,
               dhcp_start |-> IpLease10, dhcp_end |-> <<"192.168.4.", "5", "0">>,
               channel |-> DefaultChannel, country_code |-> "US"]]

\* hotspot.yaml without the ip_address key.
NoIpConfig == [DefaultConfig EXCEPT !.keys = @ \ {"ip_address"}]

ConfigChoices == {DefaultConfig, NoIpConfig}

\* The records load_hotspot_config can return for the edits of hotspot.yaml
\* looked at here: ssid another name, empty or absent; interface another
\* name or absent; ip_address absent.
ConfigInputs ==
    { [keys |-> DefaultConfig.keys \ gone,
       val  |-> [DefaultConfig.val EXCEPT !.ssid = s, !.interface = i]] :
        gone \in SUBSET {"ssid", "interface", "ip_address"},
        s \in {"pibridge", "MyNet", ""},
        i \in {"wlan0", "wlan1"} }

HasKey(cfg, k) == k \in cfg.keys

\* --------------------------------------------------------- pure functions
\* needle in hay, on str: some contiguous run of hay equals needle.
Contains(needle, hay) ==
    \E i \in 0..(Len(hay) - Len(needle)) :
        SubSeq(hay, i + 1, i + Len(needle)) = needle

\* One "inet" line of `ip addr show`.
AddrLine(a) == <<"inet ">> \o a \o <<"/24">>

\* ip in result.stdout, where stdout holds one line per address.
IpInStdout(ip, addrSet) == \E a \in addrSet : Contains(ip, AddrLine(a))

\* One line of `arp -an`.
ArpLine(a) == <<"? (">> \o a \o <<") at ">>

\* ------------------------------------------------------------ lease texts
\* A line of a lease file is a sequence of pieces of text; a piece is a blank
\* or has no blank in it. "sup2" is the character U+00B2 (superscript two).
Whitespace == {" ", "\t"}
AsciiDigits == {"0", "1", "2", "3", "4", "5", "6", "7", "8", "9"}
\* The characters str.isdigit accepts.
UnicodeDigits == AsciiDigits \cup {"sup2"}

Unknown == <<"unknown">>

RECURSIVE SplitFrom(_, _, _)
SplitFrom(line, i, cur) ==
    LET done == IF cur = <<>> THEN <<>> ELSE <<cur>>
    IN IF i > Len(line) THEN done
       ELSE IF line[i] \in Whitespace THEN done \o SplitFrom(line, i + 1, <<>>)
       ELSE SplitFrom(line, i + 1, Append(cur, line[i]))

\* str.split(): the runs of pieces between blanks.
split(line) == SplitFrom(line, 1, <<>>)

\* str.isdigit(): not empty and every character a digit.
isdigit(f) == Len(f) > 0 /\ \A i \in 1..Len(f) : f[i] \in UnicodeDigits

\* int(str) raises ValueError on a digit that is not a decimal digit.
IntRaises(f) == \E i \in 1..Len(f) : f[i] \notin AsciiDigits

RECURSIVE StripZeros(_)
StripZeros(f) ==
    IF Len(f) > 1 /\ f[1] = "0" THEN StripZeros(Tail(f)) ELSE f

DigitValue(d) == CHOOSE n \in 0..9 : ToString(n) = d

\* a <= b for two decimal numerals of the same length.
RECURSIVE NumeralLeq(_, _)
NumeralLeq(a, b) ==
    IF a = <<>> THEN TRUE
    ELSE IF DigitValue(a[1]) # DigitValue(b[1])
         THEN DigitValue(a[1]) < DigitValue(b[1])
         ELSE NumeralLeq(Tail(a), Tail(b))

\* The last second datetime.fromtimestamp accepts: the end of year 9999.
MaxTimestamp == <<"2", "5", "3", "4", "0", "2", "3", "0", "0", "7", "9", "9">>

\* lines 473-479: _format_timestamp; an out-of-range value makes
\* fromtimestamp raise, which gives 'unknown'.
format_timestamp(f) ==
    LET n == StripZeros(f)
    IN IF Len(n) < Len(MaxTimestamp)
          \/ (Len(n) = Len(MaxTimestamp) /\ NumeralLeq(n, MaxTimestamp))
       THEN <<"strftime">> \o n
       ELSE Unknown

\* lines 450-462: the leases of one file, appended to clients one by one;
\* raised: an exception has ended the loop.
RECURSIVE ParseLeases(_, _, _)
ParseLeases(text, k, clients) ==
    IF k > Len(text) THEN [clients |-> clients, raised |-> FALSE]
    ELSE LET parts == split(text[k])
         IN IF text[k] = <<>> \/ Len(parts) < 3
            THEN ParseLeases(text, k + 1, clients)
            ELSE IF isdigit(parts[1]) /\ IntRaises(parts[1])
            THEN [clients |-> clients, raised |-> TRUE]
            ELSE ParseLeases(text, k + 1, Append(clients,
                    [mac |-> parts[2], ip |-> parts[3],
                     hostname |-> IF Len(parts) > 3 THEN parts[4] ELSE Unknown,
                     connected_since |-> IF isdigit(parts[1])
                                         THEN format_timestamp(parts[1])
                                         ELSE Unknown]))

\* lines 440-467: the loop over the candidate files. A file that cannot be
\* read, or whose parsing raises, is passed over ("except: continue") and the
\* next one is asked for; the first one read and parsed ends the loop.
RECURSIVE ReadLeaseFiles(_, _, _)
ReadLeaseFiles(store, i, clients) ==
    IF i > Len(store) THEN [clients |-> clients, tried |-> Len(store)]
    ELSE IF ~store[i].ok THEN ReadLeaseFiles(store, i + 1, clients)
    ELSE LET got == ParseLeases(store[i].text, 1, clients)
         IN IF got.raised THEN ReadLeaseFiles(store, i + 1, got.clients)
            ELSE [clients |-> got.clients, tried |-> i]

get_connected_clients(store) == ReadLeaseFiles(store, 1, <<>>)

\* Lines a lease file may hold.
Mac == "aa:bb:cc:dd:ee:ff"
LineFull == <<"1", "7", " ", Mac, " ", "192.168.4.23", " ", "my-phone">>
LineNoHost == <<"1", "7", "\t", Mac, " ", " ", "192.168.4.23">>
LineTwo == <<"duid", " ", "00:01:00:01">>
LineAlpha == <<"1", "x", " ", Mac, " ", "192.168.4.23", " ", "my-phone">>
LineSup == <<"1", "sup2", " ", Mac, " ", "192.168.4.23", " ", "my-phone">>
LineHuge ==
    <<"0", "9", "9", "9", "9", "9", "9", "9", "9", "9", "9", "9", "9", "9",
      " ", Mac, " ", "192.168.4.23">>
LineBlank == <<" ">>
LineEmpty == <<>>
SampleLines ==
    {LineFull, LineNoHost, LineTwo, LineAlpha, LineSup, LineHuge, LineBlank,
     LineEmpty}

Unreadable == [ok |-> FALSE, text |-> <<>>]

\* The lease files of a host whose dnsmasq keeps its leases in the second
\* candidate place.
DefaultLeases == <<Unreadable, [ok |-> TRUE, text |-> <<LineFull>>], Unreadable>>

VARIABLES
    leases,           \* the candidate lease files: readable or not, and their lines
    procs,            \* role -> number of its processes in the process table
    files,            \* the files that exist under /tmp
    addrs,            \* the addresses the interface carries
    arp,              \* the neighbours `arp -an` lists
    probeFault,       \* the probe tool this host cannot run, or "none"
    hotspot_config,   \* HotspotManager.hotspot_config
    hostapd_process,  \* caller -> HotspotManager.hostapd_process
    dnsmasq_process,  \* caller -> HotspotManager.dnsmasq_process
    call,             \* caller -> the operation it is in and where
    prev,             \* caller -> what its operation before the last one did
    opsLeft           \* caller -> operations it may still begin

envVars == <<procs, files, addrs, arp>>
hostVars == <<probeFault, hotspot_config>>
mgrVars == <<hostapd_process, dnsmasq_process>>
vars == <<procs, files, addrs, arp, probeFault, hotspot_config,
          hostapd_process, dnsmasq_process, call, prev, opsLeft, leases>>

\* What this host lacks: nothing, the pgrep tool, or the wireless interface.
ProbeFaults == {"none", "pgrep", "no_interface"}

\* No command of the operation has gone wrong. Otherwise `at` is the place in
\* the log of the last command that did, and `stderr` what it printed.
NoFault == [at |-> 0, stderr |-> None]

\* line 23: HotspotManager.interface, assigned in __init__ and nowhere else.
interface == "wlan0"

\* The commands that take the interface as an argument (lines 59, 171, 191,
\* 201, 209, 218, 227).
InterfaceCommands ==
    {"ip addr show", "nmcli dev disconnect", "ip link show", "ip addr flush",
     "ip addr add", "ip link set up"}

\* What a call has put into a config file: nothing, the whole document, or a
\* part of it (a write that failed after the open).
NotWritten == [state |-> "none", doc |-> <<>>]
NothingWritten == [p \in ConfFiles |-> NotWritten]

IdleCall ==
    [pc |-> "idle", op |-> "none", log |-> <<>>, exc |-> None, ret |-> None,
     err |-> None, stopExc |-> None, stopRet |-> None, cleanupRuns |-> 0,
     clean |-> TRUE, firstActive |-> None, info |-> None, post |-> None,
     afterStart |-> FALSE, failed |-> NoFault, written |-> NothingWritten,
     ifaces |-> {}, web |-> FALSE, rfkill |-> None, http |-> None]

\* What is kept of an operation once the caller has begun the next one.
Summary(r) ==
    [op |-> r.op, ret |-> r.ret, clean |-> r.clean, firstActive |-> r.firstActive,
     info |-> r.info, post |-> r.post, afterStart |-> r.afterStart]

\* ------------------------------------------------------------ is_hotspot_active
\* The commands is_hotspot_active issues in the given state.
ActiveProbeLog(p, fault) ==
    IF fault = "pgrep" \/ p["hostapd"] = 0
    THEN <<"pgrep hostapd">>
    ELSE <<"pgrep hostapd", "ip addr show">>

\* The value is_hotspot_active returns: pgrep found a process and the
\* configured address is a substring of `ip addr show`; any exception
\* (a probe that cannot run, a non-zero `ip addr show` under check=True,
\* None in str) gives False.
is_hotspot_active(p, a, cfg, fault) ==
    IF fault = "pgrep" THEN FALSE
    ELSE IF p["hostapd"] = 0 THEN FALSE
    ELSE IF fault = "no_interface" THEN FALSE
    ELSE IF ~HasKey(cfg, "ip_address") THEN FALSE
    ELSE IpInStdout(cfg.val.ip_address, a)

TypeOK ==
    /\ procs \in [Roles -> 0..MaxProcs]
    /\ files \subseteq {HostapdConf, DnsmasqConf, HostapdLog}
    /\ probeFault \in ProbeFaults
    /\ hotspot_config \in ConfigInputs
    /\ \A c \in Callers : opsLeft[c] \in 0..MaxOps

\* The states of the host a manager can be constructed in: every web request
\* constructs its own manager, on whatever earlier requests, earlier runs and
\* the rest of the system have left.
HostStates ==
    { \* nothing of the hotspot exists
      [procs |-> [r \in Roles |-> 0], files |-> {}, addrs |-> {}],
      \* the interface is a station with a lease of another access point
      [procs |-> [r \in Roles |-> 0], files |-> {}, addrs |-> {IpLease10}],
      \* an earlier start has brought the hotspot up
      [procs |-> [r \in Roles |-> 1],
       files |-> {HostapdConf, DnsmasqConf, HostapdLog}, addrs |-> {IpHotspot}],
      \* hostapd was left running and the interface has gone back to a station
      [procs |-> [r \in Roles |-> IF r = "hostapd" THEN 1 ELSE 0],
       files |-> {HostapdConf, DnsmasqConf, HostapdLog}, addrs |-> {IpLease10}],
      \* the system's own dnsmasq service runs
      [procs |-> [r \in Roles |-> IF r = "dnsmasq" THEN 1 ELSE 0],
       files |-> {}, addrs |-> {}] }

\* hostapd was left running and the interface carries no address any more
\* (NetworkManager or a failed start has flushed it).
StaleHostapd ==
    [procs |-> [r \in Roles |-> IF r = "hostapd" THEN 1 ELSE 0],
     files |-> {HostapdConf, DnsmasqConf, HostapdLog}, addrs |-> {}]

InitHost ==
    /\ \E h \in HostStates :
        /\ procs = h.procs
        /\ files = h.files
        /\ addrs = h.addrs
    /\ arp = {}
    /\ probeFault \in ProbeFaults
    /\ hotspot_config \in ConfigChoices
    /\ hostapd_process = [c \in Callers |-> None]
    /\ dnsmasq_process = [c \in Callers |-> None]
    /\ call = [c \in Callers |-> IdleCall]
    /\ prev = [c \in Callers |-> Summary(IdleCall)]
    /\ leases = DefaultLeases

\* One caller runs its operations one after the other.
Init ==
    /\ InitHost
    /\ opsLeft = [c \in Callers |-> IF c = "a" THEN MaxOps ELSE 0]

\* Two callers at once, one operation each, on a host that lacks nothing and
\* has the default configuration.
InitConcurrent ==
    /\ InitHost
    /\ probeFault = "none"
    /\ hotspot_config = DefaultConfig
    /\ opsLeft = [c \in Callers |-> 1]

\* One operation of a manager constructed on each record the configuration
\* file can give, on a host that lacks nothing.
InitConfigs ==
    /\ \E h \in HostStates \cup {StaleHostapd} :
        /\ procs = h.procs
        /\ files = h.files
        /\ addrs = h.addrs
    /\ arp = {}
    /\ probeFault = "none"
    /\ hotspot_config \in ConfigInputs
    /\ hostapd_process = [c \in Callers |-> None]
    /\ dnsmasq_process = [c \in Callers |-> None]
    /\ call = [c \in Callers |-> IdleCall]
    /\ prev = [c \in Callers |-> Summary(IdleCall)]
    /\ leases = DefaultLeases
    /\ opsLeft = [c \in Callers |-> IF c = "a" THEN 1 ELSE 0]

\* The lease files get_connected_clients is run on: the first one readable
\* or not with up to MaxLines lines, the later ones with one line if readable.
LeaseInputs ==
    { <<[ok |-> ok1, text |-> text1], second, third>> :
        ok1 \in BOOLEAN,
        text1 \in UNION {[1..n -> SampleLines] : n \in 0..MaxLines},
        second \in {Unreadable, [ok |-> TRUE, text |-> <<LineNoHost>>]},
        third \in {Unreadable, [ok |-> TRUE, text |-> <<LineFull>>]} }

\* get_connected_clients on a host where nothing of the hotspot runs.
InitLeases ==
    /\ procs = [r \in Roles |-> 0]
    /\ files = {}
    /\ addrs = {}
    /\ arp = {}
    /\ probeFault = "none"
    /\ hotspot_config = DefaultConfig
    /\ hostapd_process = [c \in Callers |-> None]
    /\ dnsmasq_process = [c \in Callers |-> None]
    /\ call = [c \in Callers |-> IdleCall]
    /\ prev = [c \in Callers |-> Summary(IdleCall)]
    /\ opsLeft = [c \in Callers |-> IF c = "a" THEN 1 ELSE 0]
    /\ leases \in LeaseInputs

\* ------------------------------------------------------------- bookkeeping
Outcomes == {"ok", "fail", "raise"}

\* The processes and files a returning operation leaves behind.
Snapshot(p, f) == [procs |-> p, files |-> f]

\* The caller goes on inside its operation.
Step(c, r) ==
    /\ call' = [call EXCEPT ![c] = r]
    /\ UNCHANGED <<prev, opsLeft, probeFault, hotspot_config, leases>>

\* The operation returns (or raises) to its caller: the program that called
\* the manager, or the web route, which has its response still to build.
Return(c, r) ==
    /\ call' = [call EXCEPT ![c] =
                   [r EXCEPT !.pc = IF r.web THEN "w_respond" ELSE "idle"]]
    /\ UNCHANGED <<prev, opsLeft, probeFault, hotspot_config, leases>>

\* An exception leaves the try block of start_hotspot.
Throw(r, cause) == [r EXCEPT !.exc = cause, !.pc = "s_except"]

\* The last command in the log of r did not do what it is run for.
Fault(r, stderr) ==
    [r EXCEPT !.clean = FALSE, !.failed = [at |-> Len(r.log), stderr |-> stderr]]

\* The same, for the exception a command that did not succeed leads to.
Failed(r, cause) == Throw(Fault(r, None), cause)

\* The commands are issued; ifaces: the interface names given to those that
\* take one, which is self.interface each time.
Logged(r, cmds) ==
    [r EXCEPT !.log = @ \o cmds,
              !.ifaces = IF \E i \in 1..Len(cmds) : cmds[i] \in InterfaceCommands
                         THEN @ \cup {interface} ELSE @]

\* The record of an operation that begins after the one r describes;
\* afterStart: that one was a start_hotspot that returned True with every
\* command succeeding.
Fresh(r, op, pc) ==
    [IdleCall EXCEPT !.pc = pc, !.op = op, !.clean = (probeFault = "none"),
                     !.afterStart = r.op = "start" /\ r.ret = "True" /\ r.clean]

Begin(c, op, pc) ==
    /\ call[c].pc = "idle"
    /\ opsLeft[c] > 0
    /\ opsLeft' = [opsLeft EXCEPT ![c] = @ - 1]
    /\ prev' = [prev EXCEPT ![c] = Summary(call[c])]
    /\ call' = [call EXCEPT ![c] = Fresh(call[c], op, pc)]
    /\ UNCHANGED <<envVars, hostVars, mgrVars, leases>>

\* ------------------------------------------------------------ start_hotspot
CallStart(c) == Begin(c, "start", "s_check")

\* The already-active check with its early return lost: the pipeline runs
\* whatever the check finds.
StartCheckActiveNoReturn(c) ==
    /\ call[c].pc = "s_check"
    /\ LET act == is_hotspot_active(procs, addrs, hotspot_config, probeFault)
           r == [Logged(call[c], ActiveProbeLog(procs, probeFault))
                    EXCEPT !.firstActive = IF act THEN "True" ELSE "False"]
       IN Step(c, [r EXCEPT !.pc = "s_sudo"])
    /\ UNCHANGED <<envVars, mgrVars>>

\* lines 75-77: the already-active check.
StartCheckActive(c) ==
    /\ call[c].pc = "s_check"
    /\ LET act == is_hotspot_active(procs, addrs, hotspot_config, probeFault)
           r == [Logged(call[c], ActiveProbeLog(procs, probeFault))
                    EXCEPT !.firstActive = IF act THEN "True" ELSE "False"]
       IN IF act
          THEN Return(c, [r EXCEPT !.ret = "True"])
          ELSE Step(c, [r EXCEPT !.pc = "s_sudo"])
    /\ UNCHANGED <<envVars, mgrVars>>

\* The privilege check whose failure is a warning: the pipeline goes on.
StartCheckSudoWarned(c) ==
    /\ call[c].pc = "s_sudo"
    /\ \E sudoOk \in BOOLEAN :
        LET r == [Logged(call[c], <<"sudo -n true">>) EXCEPT !.pc = "s_disconnect"]
        IN Step(c, IF sudoOk THEN r ELSE Fault(r, None))
    /\ UNCHANGED <<envVars, mgrVars>>

\* lines 79-85: _check_sudo_access, or the privilege error.
StartCheckSudo(c) ==
    /\ call[c].pc = "s_sudo"
    /\ \E sudoOk \in BOOLEAN :
        LET r == Logged(call[c], <<"sudo -n true">>)
        IN IF sudoOk
           THEN Step(c, [r EXCEPT !.pc = "s_disconnect"])
           ELSE Step(c, Failed(r, "PrivilegeRequired"))
    /\ UNCHANGED <<envVars, mgrVars>>

\* lines 166-177: _disconnect_wifi; whatever nmcli does is logged, never raised.
StartDisconnect(c) ==
    /\ call[c].pc = "s_disconnect"
    /\ \E sudoOk \in BOOLEAN, out \in Outcomes :
        LET r == [Logged(call[c], <<"sudo -n true", "nmcli dev disconnect">>)
                     EXCEPT !.pc = "c_link"]
        IN Step(c, IF sudoOk /\ out = "ok" THEN r ELSE Fault(r, None))
    /\ UNCHANGED <<envVars, mgrVars>>

\* -------------------------------------------------- _configure_interface_ip
\* line 208: the address the configurator assigns.
ConfiguredIp(cfg) ==
    IF HasKey(cfg, "ip_address") THEN cfg.val.ip_address ELSE IpHotspot

\* lines 182-198: the second privilege check and `ip link show`.
ConfLinkShow(c) ==
    /\ call[c].pc = "c_link"
    /\ \E sudoOk \in BOOLEAN, out \in Outcomes :
        LET r == Logged(call[c], <<"sudo -n true">>)
            q == Logged(r, <<"ip link show">>)
        IN IF ~sudoOk THEN Step(c, Failed(r, "SudoRequired"))
           ELSE IF probeFault = "no_interface" \/ out = "fail"
                THEN Step(c, Failed(q, "InterfaceNotFound"))
           ELSE IF out = "raise" THEN Step(c, Failed(q, "OSError"))
           ELSE Step(c, [q EXCEPT !.pc = "c_flush"])
    /\ UNCHANGED <<envVars, mgrVars>>

\* lines 200-205: `ip addr flush`; a non-zero exit is a warning.
ConfFlush(c) ==
    /\ call[c].pc = "c_flush"
    /\ \E out \in Outcomes :
        LET r == Logged(call[c], <<"ip addr flush">>)
        IN CASE out = "ok" ->
                  /\ addrs' = {}
                  /\ Step(c, [r EXCEPT !.pc = "c_add"])
             [] out = "fail" ->
                  /\ addrs' = addrs
                  /\ Step(c, [Fault(r, "other") EXCEPT !.pc = "c_add"])
             [] out = "raise" ->
                  /\ addrs' = addrs
                  /\ Step(c, Failed(r, "OSError"))
    /\ UNCHANGED <<procs, files, arp, mgrVars>>

\* What a failing ip command prints: a permissions problem ("Operation not
\* permitted", "Permission denied") or anything else.
StderrKinds == {"permission", "other"}

\* lines 207-215: `ip addr add`; the kernel refuses an address the interface
\* already carries (RTNETLINK answers: File exists). A non-zero exit raises
\* HotspotError("Failed to add IP address: ...") whatever stderr holds: no
\* command of _configure_interface_ip runs under check=True, so the handler
\* of lines 234-242 is never entered.
ConfAdd(c) ==
    /\ call[c].pc = "c_add"
    /\ \E out \in Outcomes, stderr \in StderrKinds :
        LET r == Logged(call[c], <<"ip addr add">>)
            ip == ConfiguredIp(hotspot_config)
        IN CASE out = "ok" /\ ip \notin addrs ->
                  /\ stderr = "other"
                  /\ addrs' = addrs \cup {ip}
                  /\ Step(c, [r EXCEPT !.pc = "c_up"])
             [] out = "ok" /\ ip \in addrs ->
                  /\ stderr = "other"
                  /\ addrs' = addrs
                  /\ Step(c, Throw(r, "AddAddressFailed"))
             [] out = "fail" ->
                  /\ addrs' = addrs
                  /\ Step(c, Throw(Fault(r, stderr), "AddAddressFailed"))
             [] out = "raise" ->
                  /\ stderr = "other"
                  /\ addrs' = addrs
                  /\ Step(c, Failed(r, "OSError"))
    /\ UNCHANGED <<procs, files, arp, mgrVars>>

\* lines 217-224: `ip link set up`; a non-zero exit raises
\* HotspotError("Failed to bring interface up: ...") whatever stderr holds.
ConfLinkUp(c) ==
    /\ call[c].pc = "c_up"
    /\ \E out \in Outcomes, stderr \in StderrKinds :
        LET r == Logged(call[c], <<"ip link set up">>)
        IN CASE out = "ok" ->
                  /\ stderr = "other"
                  /\ Step(c, [r EXCEPT !.pc = "c_verify"])
             [] out = "fail" ->
                  Step(c, Throw(Fault(r, stderr), "LinkUpFailed"))
             [] out = "raise" ->
                  /\ stderr = "other"
                  /\ Step(c, Failed(r, "OSError"))
    /\ UNCHANGED <<envVars, mgrVars>>

\* _configure_interface_ip without its re-read of the addresses: it returns
\* once the link is up.
ConfVerifySkipped(c) ==
    /\ call[c].pc = "c_verify"
    /\ Step(c, [call[c] EXCEPT !.pc = "w_hostapd"])
    /\ UNCHANGED <<envVars, mgrVars>>

\* lines 226-232: the address set is read again and searched for the address;
\* `ip addr show` runs without check=True, so a non-zero exit is an empty
\* text in which the address is not found.
ConfVerify(c) ==
    /\ call[c].pc = "c_verify"
    /\ \E out \in Outcomes :
        LET r == Logged(call[c], <<"ip addr show">>)
        IN CASE out = "ok" ->
                  IF probeFault # "no_interface"
                     /\ IpInStdout(ConfiguredIp(hotspot_config), addrs)
                  THEN Step(c, [r EXCEPT !.pc = "w_hostapd"])
                  ELSE Step(c, Throw(r, "VerificationFailed"))
             [] out = "fail" -> Step(c, Failed(r, "VerificationFailed"))
             [] out = "raise" -> Step(c, Failed(r, "OSError"))
    /\ UNCHANGED <<envVars, mgrVars>>

\* ------------------------------------------------------- the config files
\* dict.get(key, default) of Python.
GetOr(cfg, k, default) == IF HasKey(cfg, k) THEN cfg.val[k] ELSE default

\* lines 258-273: the text of the hostapd config, as its lines that depend
\* on the manager: <<key, value>>.
HostapdDocument(cfg) ==
    << <<"interface", interface>>,
       <<"ssid", GetOr(cfg, "ssid", "pibridge")>>,
       <<"channel", GetOr(cfg, "channel", DefaultChannel)>>,
       <<"wpa_passphrase", GetOr(cfg, "password", "pibridge123")>>,
       <<"country_code", GetOr(cfg, "country_code", "US")>> >>

\* lines 289-297: the text of the dnsmasq config.
DnsmasqDocument(cfg) ==
    << <<"interface", interface>>,
       <<"dhcp-range", <<GetOr(cfg, "dhcp_start", IpLease10),
                         GetOr(cfg, "dhcp_end", <<"192.168.4.", "5", "0">>)>> >>,
       <<"dhcp-option=3", GetOr(cfg, "ip_address", IpHotspot)>>,
       <<"dhcp-option=6", GetOr(cfg, "ip_address", IpHotspot)>> >>

\* lines 253-282 and 284-306: open(path, 'w') and write; the file may be
\* left behind by a write that fails after the open. Any exception becomes
\* HotspotError("Failed to create ... config").
WriteConfig(c, at, path, doc, next) ==
    /\ call[c].pc = at
    /\ \E out \in {"ok", "fail", "partial"} :
        LET r == Logged(call[c], <<"write " \o path>>)
        IN CASE out = "ok" ->
                  /\ files' = files \cup {path}
                  /\ Step(c, [r EXCEPT !.pc = next,
                                       !.written[path] = [state |-> "full", doc |-> doc]])
             [] out = "partial" ->
                  /\ files' = files \cup {path}
                  /\ Step(c, Failed([r EXCEPT !.written[path] =
                                         [state |-> "partial", doc |-> <<>>]],
                                    "ConfigWriteFailed"))
             [] out = "fail" ->
                  /\ files' = files
                  /\ Step(c, Failed(r, "ConfigWriteFailed"))
    /\ UNCHANGED <<procs, addrs, arp, mgrVars>>

\* start_hotspot without its call of _create_dnsmasq_config.
CreateHostapdConfigOnly(c) ==
    WriteConfig(c, "w_hostapd", HostapdConf, HostapdDocument(hotspot_config),
                "l_hostapd")

CreateHostapdConfig(c) ==
    WriteConfig(c, "w_hostapd", HostapdConf, HostapdDocument(hotspot_config),
                "w_dnsmasq")

CreateDnsmasqConfig(c) ==
    WriteConfig(c, "w_dnsmasq", DnsmasqConf, DnsmasqDocument(hotspot_config),
                "l_hostapd")

\* ------------------------------------------------------------ the daemons
\* What the launch command has printed when it exits non-zero: nothing, or
\* some text on stdout or stderr.
Captured == {"empty", "output"}

\* lines 328-336 and 358-366: the handler of CalledProcessError. The launch
\* runs with text=True, so e.stderr and e.stdout are str; a non-empty one is
\* sent .decode(), which str does not have, and the handler itself raises
\* AttributeError before it reaches its raise of HotspotError.
LaunchError(role, captured) ==
    IF captured = "output" THEN "AttributeError" ELSE "LaunchFailed " \o role

\* A launch that keeps the daemon as a Popen handle of the manager.
LaunchHolding(c, role, at, next, logFiles) ==
    /\ call[c].pc = at
    /\ \E sudoOk \in BOOLEAN :
        LET q == Logged(call[c], <<"sudo -n true", "launch " \o role>>)
            r == IF sudoOk THEN q ELSE Fault(q, None)
        IN /\ procs[role] < MaxProcs
           /\ procs' = [procs EXCEPT ![role] = @ + 1]
           /\ files' = files \cup logFiles
           /\ hostapd_process' =
                 IF role = "hostapd" THEN [hostapd_process EXCEPT ![c] = "Popen"]
                 ELSE hostapd_process
           /\ dnsmasq_process' =
                 IF role = "dnsmasq" THEN [dnsmasq_process EXCEPT ![c] = "Popen"]
                 ELSE dnsmasq_process
           /\ Step(c, [r EXCEPT !.pc = next])
    /\ UNCHANGED <<addrs, arp>>

\* lines 311-317 and 341-347: the launch command under check=True. The
\* command may exit 0 and the daemon be gone at once ("exited").
Launch(c, role, at, next, logFiles) ==
    /\ call[c].pc = at
    /\ \E sudoOk \in BOOLEAN, out \in {"ok", "exited", "fail", "raise"},
          captured \in Captured :
        LET q == Logged(call[c], <<"sudo -n true", "launch " \o role>>)
            r == IF sudoOk THEN q ELSE Fault(q, None)
        IN CASE out = "ok" /\ procs[role] < MaxProcs ->
                  /\ captured = "empty"
                  /\ procs' = [procs EXCEPT ![role] = @ + 1]
                  /\ files' = files \cup logFiles
                  /\ Step(c, [r EXCEPT !.pc = next])
             [] out = "exited" \/ (out = "ok" /\ procs[role] >= MaxProcs) ->
                  /\ captured = "empty"
                  /\ procs' = procs
                  /\ files' = files \cup logFiles
                  /\ Step(c, [Fault(r, None) EXCEPT !.pc = next])
             [] out = "fail" ->
                  /\ UNCHANGED <<procs, files>>
                  /\ Step(c, Throw(Fault(r, captured), LaunchError(role, captured)))
             [] out = "raise" ->
                  /\ captured = "empty"
                  /\ UNCHANGED <<procs, files>>
                  /\ Step(c, Failed(r, "OSError"))
    /\ UNCHANGED <<addrs, arp, mgrVars>>

\* The post-launch probe whose failure is only noted: the step returns and
\* the pipeline goes on.
ProbeDaemonNoted(c, role, at, next) ==
    /\ call[c].pc = at
    /\ LET r == Logged(call[c], <<"pgrep " \o role>>)
       IN IF probeFault = "pgrep" THEN Step(c, Failed(r, "OSError"))
          ELSE IF procs[role] = 0
               THEN Step(c, [r EXCEPT !.exc = "ProcessNotFound " \o role,
                                      !.pc = next])
          ELSE Step(c, [r EXCEPT !.pc = next])
    /\ UNCHANGED <<envVars, mgrVars>>

\* lines 319-326 and 349-356: sleep(1), then pgrep.
ProbeDaemon(c, role, at, next) ==
    /\ call[c].pc = at
    /\ LET r == Logged(call[c], <<"pgrep " \o role>>)
       IN IF probeFault = "pgrep" THEN Step(c, Failed(r, "OSError"))
          ELSE IF procs[role] = 0
               THEN Step(c, Throw(r, "ProcessNotFound " \o role))
          ELSE Step(c, [r EXCEPT !.pc = next])
    /\ UNCHANGED <<envVars, mgrVars>>

LaunchHostapd(c) == Launch(c, "hostapd", "l_hostapd", "p_hostapd", {HostapdLog})
ProbeHostapd(c) == ProbeDaemon(c, "hostapd", "p_hostapd", "l_dnsmasq")
LaunchDnsmasq(c) == Launch(c, "dnsmasq", "l_dnsmasq", "p_dnsmasq", {})
ProbeDnsmasq(c) == ProbeDaemon(c, "dnsmasq", "p_dnsmasq", "s_verify")

\* The verification whose result is logged and not acted on: start_hotspot
\* returns True after the settle period whatever is_hotspot_active says.
StartVerifyLenient(c) ==
    /\ call[c].pc = "s_verify"
    /\ \E crashed \in BOOLEAN :
        LET p == IF crashed THEN [procs EXCEPT !["hostapd"] = 0] ELSE procs
            q == Logged(call[c], ActiveProbeLog(p, probeFault))
            r == IF crashed THEN Fault(q, None) ELSE q
        IN /\ crashed => procs["hostapd"] > 0
           /\ procs' = p
           /\ Return(c, [r EXCEPT !.ret = "True"])
    /\ UNCHANGED <<files, addrs, arp, mgrVars>>

\* lines 108-121: sleep(3), during which a daemon that could not take the
\* interface exits, then is_hotspot_active decides.
StartVerify(c) ==
    /\ call[c].pc = "s_verify"
    /\ \E crashed \in BOOLEAN :
        LET p == IF crashed THEN [procs EXCEPT !["hostapd"] = 0] ELSE procs
            act == is_hotspot_active(p, addrs, hotspot_config, probeFault)
            q == Logged(call[c], ActiveProbeLog(p, probeFault))
            r == IF crashed THEN Fault(q, None) ELSE q
        IN /\ crashed => procs["hostapd"] > 0
           /\ procs' = p
           /\ IF act
              THEN Return(c, [r EXCEPT !.ret = "True"])
              ELSE Step(c, Throw(r, "StartupVerificationFailed"))
    /\ UNCHANGED <<files, addrs, arp, mgrVars>>

\* A handler that waits for both daemons to be gone before it cleans up.
StartExceptWaiting(c) ==
    /\ call[c].pc = "s_except"
    /\ procs = [role \in Roles |-> 0]
    /\ Step(c, [call[c] EXCEPT !.pc = "t_enter", !.cleanupRuns = @ + 1])
    /\ UNCHANGED <<envVars, mgrVars>>

\* A handler that cleans up only once a daemon launch has been issued.
StartExceptLateOnly(c) ==
    /\ call[c].pc = "s_except"
    /\ IF \E i \in 1..Len(call[c].log) :
             call[c].log[i] \in {"launch hostapd", "launch dnsmasq"}
       THEN Step(c, [call[c] EXCEPT !.pc = "t_enter", !.cleanupRuns = @ + 1])
       ELSE Step(c, [call[c] EXCEPT !.pc = "t_end"])
    /\ UNCHANGED <<envVars, mgrVars>>

\* lines 123-126: the handler of start_hotspot calls stop_hotspot.
StartExcept(c) ==
    /\ call[c].pc = "s_except"
    /\ Step(c, [call[c] EXCEPT !.pc = "t_enter", !.cleanupRuns = @ + 1])
    /\ UNCHANGED <<envVars, mgrVars>>

\* The handler letting an exception of the cleanup take the place of the one
\* it caught.
StartFailedMasked(cause, stopExc) ==
    <<"Failed to start hotspot", IF stopExc # None THEN stopExc ELSE cause>>

\* line 127: what start_hotspot raises once the cleanup has returned: a
\* HotspotError whose text carries the exception the handler caught.
StartFailed(cause, stopExc) == <<"Failed to start hotspot", cause>>

StartRaise(c) ==
    /\ call[c].pc = "t_end"
    /\ call[c].op = "start"
    /\ Return(c, [call[c] EXCEPT !.ret = "Raised",
                                 !.err = StartFailed(call[c].exc, call[c].stopExc)])
    /\ UNCHANGED <<envVars, mgrVars>>

\* ------------------------------------------------------------- stop_hotspot
CallStop(c) == Begin(c, "stop", "t_enter")

\* lines 131-150: terminate the processes the manager holds a handle of.
\* No line of the source assigns the handles, so both branches are skipped.
StopHandles(c) ==
    /\ call[c].pc = "t_enter"
    /\ procs' = [role \in Roles |->
                    IF (role = "hostapd" /\ hostapd_process[c] # None)
                       \/ (role = "dnsmasq" /\ dnsmasq_process[c] # None)
                    THEN IF procs[role] > 0 THEN procs[role] - 1 ELSE 0
                    ELSE procs[role]]
    /\ hostapd_process' = [hostapd_process EXCEPT ![c] = None]
    /\ dnsmasq_process' = [dnsmasq_process EXCEPT ![c] = None]
    /\ Step(c, [call[c] EXCEPT !.pc = "t_pkill_hostapd"])
    /\ UNCHANGED <<files, addrs, arp>>

\* lines 153-154: pkill -f <role>; its exit status is not looked at, an
\* exception of subprocess.run leaves the try block.
Pkill(c, role, at, next) ==
    /\ call[c].pc = at
    /\ \E out \in Outcomes :
        LET r == Logged(call[c], <<"pkill " \o role>>)
        IN CASE out = "ok" ->
                  /\ procs' = [procs EXCEPT ![role] = 0]
                  /\ Step(c, [r EXCEPT !.pc = next])
             [] out = "fail" ->
                  /\ procs[role] > 0
                  /\ procs' = procs
                  /\ Step(c, [Fault(r, None) EXCEPT !.pc = next])
             [] out = "raise" ->
                  /\ procs' = procs
                  /\ Step(c, [Fault(r, None) EXCEPT !.pc = "t_end",
                                  !.stopExc = "OSError", !.stopRet = "False"])
    /\ UNCHANGED <<files, addrs, arp, mgrVars>>

StopPkillHostapd(c) == Pkill(c, "hostapd", "t_pkill_hostapd", "t_pkill_dnsmasq")
StopPkillDnsmasq(c) == Pkill(c, "dnsmasq", "t_pkill_dnsmasq", "t_cleanup")

\* A cleanup that removes the log of hostapd and leaves the config files.
CleanedFilesLogOnly(f, n) == f \ ({CleanupOrder[i] : i \in 1..n} \cap {HostapdLog})

\* lines 368-381: _cleanup_config_files removes the files in order; the
\* first os.remove that raises ends the loop and is logged as a warning.
\* n is the number of files dealt with before that (all of them: no error).
CleanedFiles(f, n) == f \ {CleanupOrder[i] : i \in 1..n}

\* lines 156-160: the cleanup, then "return True".
StopCleanup(c) ==
    /\ call[c].pc = "t_cleanup"
    /\ \E n \in 0..Len(CleanupOrder) :
        /\ n < Len(CleanupOrder) => CleanupOrder[n + 1] \in files
        /\ files' = CleanedFiles(files, n)
        /\ LET r == [Logged(call[c], <<"remove files">>)
                        EXCEPT !.pc = "t_end", !.stopRet = "True"]
           IN Step(c, IF n = Len(CleanupOrder) THEN r ELSE Fault(r, None))
    /\ UNCHANGED <<procs, addrs, arp, mgrVars>>

StopReturn(c) ==
    /\ call[c].pc = "t_end"
    /\ call[c].op = "stop"
    /\ Return(c, [call[c] EXCEPT !.ret = call[c].stopRet,
                                 !.post = Snapshot(procs, files)])
    /\ UNCHANGED <<envVars, mgrVars>>

\* ------------------------------------------------------- the status surface
\* lines 394-400: the neighbour lines that contain the configured address.
ClientsCount(cfg, neighbours, arpOk) ==
    IF arpOk
    THEN Cardinality({a \in neighbours :
                         Contains(IF HasKey(cfg, "ip_address")
                                  THEN cfg.val.ip_address ELSE <<"192.168.4.">>,
                                  ArpLine(a))})
    ELSE 0

\* dict.get(key) of Python: None for an absent key.
Get(cfg, k) == IF HasKey(cfg, k) THEN cfg.val[k] ELSE None

\* get_hotspot_info without the try around `arp -an`: its error reaches the
\* outer handler, whose dict has no ssid and no address, and get_status
\* fills in its defaults.
get_hotspot_infoArpFatal(p, a, cfg, fault, neighbours, arpOk) ==
    IF ~is_hotspot_active(p, a, cfg, fault)
    THEN [active |-> FALSE, ssid |-> Get(cfg, "ssid"),
          ip_address |-> Get(cfg, "ip_address"), clients |-> 0]
    ELSE IF ~arpOk
    THEN [active |-> FALSE, ssid |-> "pibridge", ip_address |-> IpHotspot,
          clients |-> 0]
    ELSE [active |-> TRUE, ssid |-> Get(cfg, "ssid"),
          ip_address |-> Get(cfg, "ip_address"),
          clients |-> ClientsCount(cfg, neighbours, arpOk)]

\* lines 383-413: get_hotspot_info.
get_hotspot_info(p, a, cfg, fault, neighbours, arpOk) ==
    IF ~is_hotspot_active(p, a, cfg, fault)
    THEN [active |-> FALSE, ssid |-> Get(cfg, "ssid"),
          ip_address |-> Get(cfg, "ip_address"), clients |-> 0]
    ELSE [active |-> TRUE, ssid |-> Get(cfg, "ssid"),
          ip_address |-> Get(cfg, "ip_address"),
          clients |-> ClientsCount(cfg, neighbours, arpOk)]

\* A probe that runs pkill where the source runs pgrep.
ProbeKilling(c, op, cmds, ok, info) ==
    /\ call[c].pc = "idle"
    /\ opsLeft[c] > 0
    /\ opsLeft' = [opsLeft EXCEPT ![c] = @ - 1]
    /\ prev' = [prev EXCEPT ![c] = Summary(call[c])]
    /\ call' = [call EXCEPT ![c] =
                   [Logged(Fresh(call[c], op, "idle"), cmds) EXCEPT
                       !.ret = "Value", !.clean = @ /\ ok, !.info = info]]
    /\ procs' = [procs EXCEPT !["hostapd"] = 0]
    /\ UNCHANGED <<files, addrs, arp, hostVars, mgrVars, leases>>

\* An operation that only probes: it begins and returns in one step.
Probe(c, op, cmds, ok, info) ==
    /\ call[c].pc = "idle"
    /\ opsLeft[c] > 0
    /\ opsLeft' = [opsLeft EXCEPT ![c] = @ - 1]
    /\ prev' = [prev EXCEPT ![c] = Summary(call[c])]
    /\ call' = [call EXCEPT ![c] =
                   [Logged(Fresh(call[c], op, "idle"), cmds) EXCEPT
                       !.ret = "Value", !.clean = @ /\ ok, !.info = info]]
    /\ UNCHANGED <<envVars, hostVars, mgrVars, leases>>

\* lines 415-424: get_status over get_hotspot_info.
GetStatus(c) ==
    \E arpOk \in BOOLEAN :
        LET act == is_hotspot_active(procs, addrs, hotspot_config, probeFault)
        IN /\ act \/ arpOk
           /\ Probe(c, "status",
                    ActiveProbeLog(procs, probeFault)
                        \o (IF act THEN <<"arp -an">> ELSE <<>>),
                    arpOk,
                    get_hotspot_info(procs, addrs, hotspot_config, probeFault,
                                     arp, arpOk))

\* lines 50-69 called from outside (the web status route, the command line).
IsHotspotActive(c) ==
    Probe(c, "is_active", ActiveProbeLog(procs, probeFault), TRUE,
          [active |-> is_hotspot_active(procs, addrs, hotspot_config, probeFault)])

\* lines 434-438: the candidate lease files, in the order they are tried.
LeaseFiles ==
    <<"/var/lib/misc/dnsmasq.leases", "/tmp/dnsmasq.leases",
      "/var/run/dnsmasq/dnsmasq.leases">>

\* lines 426-471: get_connected_clients asks `sudo cat` for the candidate
\* files in turn and returns the list of clients.
GetConnectedClients(c) ==
    LET got == get_connected_clients(leases)
    IN Probe(c, "clients",
             [i \in 1..got.tried |-> "sudo cat " \o LeaseFiles[i]],
             leases[1].ok /\ got.tried = 1,
             [clients |-> got.clients])

\* ------------------------------------------------------------ the web route
\* The text `rfkill list wifi` prints, line by line; a line is a sequence of
\* pieces of text.
SoftPiece(soft) == IF soft THEN "Soft blocked: yes" ELSE "Soft blocked: no"
HardPiece(hard) == IF hard THEN "Hard blocked: yes" ELSE "Hard blocked: no"

\* rfkill's listing of one device: a header line and two indented lines.
Listing(soft, hard) ==
    << <<"0:", " phy0: Wireless LAN">>,
       <<"\t", SoftPiece(soft)>>,
       <<"\t", HardPiece(hard)>> >>

\* The same facts on the line of the device.
OneLine(index, soft, hard) ==
    << <<index, " phy0: Wireless LAN ", SoftPiece(soft), " ", HardPiece(hard)>> >>

RfkillTexts ==
    {<<>>}
    \cup {Listing(s, h) : s, h \in BOOLEAN}
    \cup {OneLine("0:", s, h) : s, h \in BOOLEAN}
    \cup {OneLine("1:", TRUE, FALSE)}

\* What the command does: exits 0 with a text, exits non-zero, or cannot be
\* run (subprocess.run raises).
RfkillOutputs ==
    {[exit |-> "fail", stdout |-> <<>>], [exit |-> "raise", stdout |-> <<>>]}
    \cup {[exit |-> "ok", stdout |-> t] : t \in RfkillTexts}

\* rfkill_checker.py lines 33-44: the loop over the lines.
RECURSIVE ScanLines(_, _, _)
ScanLines(lines, k, status) ==
    IF k > Len(lines) THEN status
    ELSE LET line == lines[k]
         IN IF Len(line) > 0 /\ line[1] = "0:"
            THEN IF Contains(<<"Soft blocked: yes">>, line)
                 THEN ScanLines(lines, k + 1,
                        [status EXCEPT !.exists = TRUE, !.blocked = TRUE,
                                       !.soft_blocked = TRUE])
                 ELSE IF Contains(<<"Hard blocked: yes">>, line)
                 THEN ScanLines(lines, k + 1,
                        [status EXCEPT !.exists = TRUE, !.blocked = TRUE,
                                       !.hard_blocked = TRUE])
                 ELSE ScanLines(lines, k + 1, [status EXCEPT !.exists = TRUE])
            ELSE ScanLines(lines, k + 1, status)

\* rfkill_checker.py lines 18-60: the dict check_wifi_status returns; keys:
\* the keys it has.
check_wifi_status(out) ==
    IF out.exit = "ok"
    THEN ScanLines(out.stdout, 1,
            [keys |-> {"exists", "blocked", "blocked_type", "hard_blocked",
                       "soft_blocked"},
             exists |-> FALSE, blocked |-> FALSE, hard_blocked |-> FALSE,
             soft_blocked |-> FALSE])
    ELSE [keys |-> {"exists", "blocked", "error"},
          exists |-> FALSE, blocked |-> FALSE, hard_blocked |-> FALSE,
          soft_blocked |-> FALSE]

\* rfkill_checker.py lines 94-106: check_rfkill raises RfkillBlockedException
\* ("hard", "soft"), returns ("clear"), or raises the KeyError of a
\* subscript the dict has no key for.
check_rfkill(out) ==
    LET status == check_wifi_status(out)
    IN IF "hard_blocked" \notin status.keys THEN "KeyError"
       ELSE IF status.hard_blocked THEN "hard"
       ELSE IF "soft_blocked" \notin status.keys THEN "KeyError"
       ELSE IF status.soft_blocked THEN "soft"
       ELSE "clear"

\* api/hotspot.py lines 101-113: the status code chosen from the words the
\* lower-cased message of the exception holds.
Classify(words) ==
    IF words \cap {"sudo", "permission", "operation not permitted"} # {} THEN "403"
    ELSE IF words \cap {"hard_blocked", "soft_blocked"} # {} THEN "400"
    ELSE IF "already running" \in words THEN "409"
    ELSE "500"

\* The words of Classify that the message of the HotspotError of the call r
\* can hold: the privilege errors name sudo; a failing ip command's stderr is
\* part of the message; the message of an OSError (a write to /tmp, a
\* command that cannot be run) may be "Permission denied"; a
\* CalledProcessError quotes its command line, with sudo when it was used.
MessageWords(r) ==
    CASE r.exc \in {"PrivilegeRequired", "SudoRequired"} -> {{"sudo"}}
      [] r.exc \in {"AddAddressFailed", "LinkUpFailed"} ->
            IF r.failed.stderr = "permission"
            THEN {{"operation not permitted"}, {"permission"}}
            ELSE {{}}
      [] r.exc \in {"ConfigWriteFailed", "OSError"} -> {{}, {"permission"}}
      [] r.exc \in {"LaunchFailed hostapd", "LaunchFailed dnsmasq"} -> {{}, {"sudo"}}
      [] OTHER -> {{}}

\* api/hotspot.py lines 61-74: POST /hotspot/start up to its call of
\* start_hotspot. RfkillBlockedException is answered at once (67-71); any
\* other exception of check_rfkill goes to the outer handler (97-119),
\* whose message for KeyError('hard_blocked') is the text 'hard_blocked'.
WebStart(c) ==
    /\ call[c].pc = "idle"
    /\ opsLeft[c] > 0
    /\ opsLeft' = [opsLeft EXCEPT ![c] = @ - 1]
    /\ prev' = [prev EXCEPT ![c] = Summary(call[c])]
    /\ \E out \in RfkillOutputs :
        LET verdict == check_rfkill(out)
            r == [Logged(Fresh(call[c], "web_start", "idle"), <<"rfkill list wifi">>)
                     EXCEPT !.web = TRUE, !.rfkill = out]
        IN call' = [call EXCEPT ![c] =
                CASE verdict \in {"hard", "soft"} -> [r EXCEPT !.http = "400"]
                  [] verdict = "KeyError" ->
                        [r EXCEPT !.http = Classify({"hard_blocked"})]
                  [] OTHER -> [r EXCEPT !.op = "start", !.pc = "s_check"]]
    /\ UNCHANGED <<envVars, hostVars, mgrVars, leases>>

\* api/hotspot.py lines 76-119: the response once start_hotspot has returned
\* (get_status is asked, 200) or raised (the code Classify chooses).
WebRespond(c) ==
    /\ call[c].pc = "w_respond"
    /\ IF call[c].ret = "True"
       THEN LET act == is_hotspot_active(procs, addrs, hotspot_config, probeFault)
                r == Logged(call[c], ActiveProbeLog(procs, probeFault)
                                        \o (IF act THEN <<"arp -an">> ELSE <<>>))
            IN Step(c, [r EXCEPT !.pc = "idle", !.http = "200"])
       ELSE \E words \in MessageWords(call[c]) :
                Step(c, [call[c] EXCEPT !.pc = "idle", !.http = Classify(words)])
    /\ UNCHANGED <<envVars, mgrVars>>

\* ------------------------------------------------------------ environment
\* The leases dnsmasq hands out to the stations of this model.
ClientLeases == {IpLease10}

\* A station associates with the running access point and gets a lease.
ClientAssociates ==
    /\ procs["hostapd"] > 0
    /\ procs["dnsmasq"] > 0
    /\ addrs # {}
    /\ \E a \in ClientLeases :
        /\ a \notin arp
        /\ arp' = arp \cup {a}
    /\ UNCHANGED <<procs, files, addrs, hostVars, mgrVars, call, prev, opsLeft,
                   leases>>

\* ------------------------------------------------------------ specification
Next ==
    \/ \E c \in Callers :
        \/ CallStart(c)
        \/ StartCheckActive(c)
        \/ StartCheckSudo(c)
        \/ StartDisconnect(c)
        \/ ConfLinkShow(c)
        \/ ConfFlush(c)
        \/ ConfAdd(c)
        \/ ConfLinkUp(c)
        \/ ConfVerify(c)
        \/ CreateHostapdConfig(c)
        \/ CreateDnsmasqConfig(c)
        \/ LaunchHostapd(c)
        \/ ProbeHostapd(c)
        \/ LaunchDnsmasq(c)
        \/ ProbeDnsmasq(c)
        \/ StartVerify(c)
        \/ StartExcept(c)
        \/ StartRaise(c)
        \/ CallStop(c)
        \/ StopHandles(c)
        \/ StopPkillHostapd(c)
        \/ StopPkillDnsmasq(c)
        \/ StopCleanup(c)
        \/ StopReturn(c)
        \/ GetStatus(c)
        \/ IsHotspotActive(c)
        \/ GetConnectedClients(c)
    \/ ClientAssociates

\* One caller, its operations one after the other.
Spec == Init /\ [][Next]_vars

\* Two callers at the same time.
SpecConcurrent == InitConcurrent /\ [][Next]_vars

\* One caller, one operation.
InitOnce ==
    /\ InitHost
    /\ opsLeft = [c \in Callers |-> IF c = "a" THEN 1 ELSE 0]

\* The steps inside an operation: each is one blocking statement of the
\* method the caller is in, which the interpreter runs as soon as the one
\* before has returned.
Progress(c) ==
    \/ StartCheckActive(c)
    \/ StartCheckSudo(c)
    \/ StartDisconnect(c)
    \/ ConfLinkShow(c)
    \/ ConfFlush(c)
    \/ ConfAdd(c)
    \/ ConfLinkUp(c)
    \/ ConfVerify(c)
    \/ CreateHostapdConfig(c)
    \/ CreateDnsmasqConfig(c)
    \/ LaunchHostapd(c)
    \/ ProbeHostapd(c)
    \/ LaunchDnsmasq(c)
    \/ ProbeDnsmasq(c)
    \/ StartVerify(c)
    \/ StartExcept(c)
    \/ StartRaise(c)
    \/ StopHandles(c)
    \/ StopPkillHostapd(c)
    \/ StopPkillDnsmasq(c)
    \/ StopCleanup(c)
    \/ StopReturn(c)

\* One POST /hotspot/start on a host that lacks nothing, with the default
\* configuration.
InitWeb ==
    /\ InitHost
    /\ probeFault = "none"
    /\ hotspot_config = DefaultConfig
    /\ opsLeft = [c \in Callers |-> IF c = "a" THEN 1 ELSE 0]

NextWeb ==
    \/ \E c \in Callers :
        \/ WebStart(c)
        \/ StartCheckActive(c)
        \/ StartCheckSudo(c)
        \/ StartDisconnect(c)
        \/ ConfLinkShow(c)
        \/ ConfFlush(c)
        \/ ConfAdd(c)
        \/ ConfLinkUp(c)
        \/ ConfVerify(c)
        \/ CreateHostapdConfig(c)
        \/ CreateDnsmasqConfig(c)
        \/ LaunchHostapd(c)
        \/ ProbeHostapd(c)
        \/ LaunchDnsmasq(c)
        \/ ProbeDnsmasq(c)
        \/ StartVerify(c)
        \/ StartExcept(c)
        \/ StartRaise(c)
        \/ StopHandles(c)
        \/ StopPkillHostapd(c)
        \/ StopPkillDnsmasq(c)
        \/ StopCleanup(c)
        \/ WebRespond(c)
    \/ ClientAssociates

\* The web start route, once.
SpecWeb == InitWeb /\ [][NextWeb]_vars

\* One operation on every configuration record.
SpecConfigs == InitConfigs /\ [][Next]_vars

\* One operation, every external command of which returns.
SpecLive == InitOnce /\ [][Next]_vars /\ \A c \in Callers : WF_vars(Progress(c))

NextLeases == \E c \in Callers : GetConnectedClients(c)

\* One call of get_connected_clients on every lease input.
SpecLeases == InitLeases /\ [][NextLeases]_vars

\* ================================================================ claims
Range(q) == {q[i] : i \in 1..Len(q)}

NoProcs == [r \in Roles |-> 0]

Returned(c, op) == call[c].pc = "idle" /\ call[c].op = op

\* The failure points of the start pipeline: interface configuration, the
\* launch of the AP daemon, the final verification.
InjectedFailures ==
    {"SudoRequired", "InterfaceNotFound", "AddAddressFailed", "LinkUpFailed",
     "VerificationFailed", "LaunchFailed hostapd", "ProcessNotFound hostapd",
     "StartupVerificationFailed"}

\* C1. Rollback completeness: once start_hotspot has raised after a failure
\* of interface configuration, of the AP daemon launch or of the final
\* verification, no hostapd and no dnsmasq process runs and neither
\* ephemeral config file exists.
C1_RollbackComplete ==
    \A c \in Callers :
        (Returned(c, "start") /\ call[c].ret = "Raised"
            /\ call[c].exc \in InjectedFailures)
        => (procs = NoProcs /\ files \cap ConfFiles = {})

\* A caller is inside the pipeline of start_hotspot: past the already-active
\* check and not yet returned.
InPipeline(c) ==
    call[c].op = "start" /\ call[c].pc \notin {"idle", "s_check"}

\* C2. Mutual exclusion: two start_hotspot calls are never inside the
\* pipeline at the same time.
C2_MutualExclusion ==
    \A c, d \in Callers : (InPipeline(c) /\ InPipeline(d)) => c = d

ReadOnlyCommands == {"pgrep hostapd", "ip addr show"}

\* C3. Idempotent start: a start_hotspot whose is_hotspot_active() check
\* found the hotspot active has returned True at once and has issued only
\* the read-only probes.
C3_IdempotentStart ==
    \A c \in Callers :
        (call[c].op = "start" /\ call[c].firstActive = "True")
        => /\ call[c].pc = "idle"
           /\ call[c].ret = "True"
           /\ Range(call[c].log) \subseteq ReadOnlyCommands
           /\ call[c].cleanupRuns = 0

C3_Witness ==
    \E c \in Callers :
        /\ Returned(c, "start")
        /\ call[c].firstActive = "True"
        /\ call[c].ret = "True"

CleanupPcs == {"t_enter", "t_pkill_hostapd", "t_pkill_dnsmasq", "t_cleanup", "t_end"}

\* C4. Every failure of a step of start_hotspot is caught, runs stop_hotspot
\* exactly once and is raised again as one HotspotError that carries the
\* failure; a failure inside the cleanup does not take its place.
C4_FailureWrapped ==
    \A c \in Callers :
        call[c].op = "start" =>
            /\ call[c].exc # None =>
                  /\ call[c].pc \in {"s_except", "idle"} \cup CleanupPcs
                  /\ call[c].pc = "s_except" => call[c].cleanupRuns = 0
                  /\ call[c].pc \in CleanupPcs => call[c].cleanupRuns = 1
            /\ (call[c].pc = "idle" /\ call[c].exc # None) =>
                  /\ call[c].ret = "Raised"
                  /\ call[c].cleanupRuns = 1
                  /\ call[c].err = <<"Failed to start hotspot", call[c].exc>>
            /\ (call[c].pc = "idle" /\ call[c].ret = "Raised") => call[c].exc # None

C4_Witness ==
    \E c \in Callers :
        /\ Returned(c, "start")
        /\ call[c].ret = "Raised"
        /\ call[c].exc = "LaunchFailed hostapd"
        /\ call[c].stopExc = "OSError"
        /\ call[c].err = <<"Failed to start hotspot", "LaunchFailed hostapd">>

\* C5. Idempotent stop: two stop_hotspot calls in a row both return True and
\* leave the same state: no daemon process, no ephemeral config file, both
\* handles None.
C5_IdempotentStop ==
    \A c \in Callers :
        (Returned(c, "stop") /\ prev[c].op = "stop")
        => /\ prev[c].ret = "True"
           /\ call[c].ret = "True"
           /\ call[c].post = prev[c].post
           /\ call[c].post.procs = NoProcs
           /\ call[c].post.files \cap ConfFiles = {}
           /\ hostapd_process[c] = None
           /\ dnsmasq_process[c] = None

StatusOps == {"status", "is_active", "clients"}

\* A step of a read-only operation leaves the system and the manager alone.
StatusFrame ==
    \A c \in Callers :
        (call'[c] # call[c] /\ call'[c].op \in StatusOps)
        => UNCHANGED <<procs, files, addrs, arp, probeFault, hotspot_config,
                       hostapd_process, dnsmasq_process>>

\* Two status calls in a row report the same active flag.
SameFlag ==
    \A c \in Callers :
        (Returned(c, "status") \/ Returned(c, "is_active"))
            /\ prev[c].op \in {"status", "is_active"}
        => call[c].info.active = prev[c].info.active

\* C6. Status purity: get_status, get_hotspot_info, is_hotspot_active and
\* get_connected_clients change neither the addresses of the interface, nor
\* the daemon processes, nor the files, nor the fields of the manager, and
\* status calls with no start or stop in between report the same active flag.
C6_StatusPurity == [][StatusFrame]_vars /\ []SameFlag

C6_Witness ==
    \E c \in Callers :
        /\ Returned(c, "status")
        /\ prev[c].op = "status"
        /\ call[c].info.active
        /\ prev[c].info.active
        /\ procs["hostapd"] > 0

Teardown == {"pkill hostapd", "pkill dnsmasq", "remove files"}

\* C7. Whenever stop_hotspot has returned, called directly or as the
\* rollback of start_hotspot, it has issued the kill-by-name sweep for both
\* daemons and the removal of the config files; and it has returned, not
\* raised.
C7_FullTeardown ==
    \A c \in Callers :
        /\ Returned(c, "stop") =>
              /\ Teardown \subseteq Range(call[c].log)
              /\ call[c].ret \in {"True", "False"}
        /\ (Returned(c, "start") /\ call[c].exc # None) =>
              Teardown \subseteq Range(call[c].log)

\* C8. Whenever stop_hotspot returns while a hostapd or dnsmasq process is
\* still running or an ephemeral config file still exists, it returns False.
C8_SoftFailure ==
    \A c \in Callers :
        (Returned(c, "stop")
            /\ (call[c].post.procs # NoProcs
                \/ call[c].post.files \cap ConfFiles # {}))
        => call[c].ret = "False"

\* C9. is_hotspot_active returns True only if a hostapd process exists and
\* the interface carries the configured address.
C9_ActiveOnlyIf ==
    \A c \in Callers :
        (Returned(c, "is_active") /\ call[c].info.active)
        => /\ procs["hostapd"] > 0
           /\ HasKey(hotspot_config, "ip_address")
           /\ hotspot_config.val.ip_address \in addrs

\* C10. With the default configuration and every command succeeding:
\* start_hotspot from an inactive system returns True; the get_status after
\* it reports active, ssid pibridge, ip_address 192.168.4.1 and no client
\* (none has associated); the stop_hotspot after that returns True and
\* leaves no ephemeral config file.
C10_EndToEnd ==
    \A c \in Callers :
        hotspot_config = DefaultConfig =>
            /\ (Returned(c, "start") /\ call[c].clean
                    /\ call[c].firstActive = "False")
               => call[c].ret = "True"
            /\ (Returned(c, "status") /\ call[c].clean /\ call[c].afterStart
                    /\ prev[c].firstActive = "False" /\ arp = {})
               => call[c].info = [active |-> TRUE, ssid |-> "pibridge",
                                  ip_address |-> IpHotspot, clients |-> 0]
            /\ (Returned(c, "stop") /\ call[c].clean /\ prev[c].op = "status"
                    /\ prev[c].clean /\ prev[c].afterStart)
               => /\ call[c].ret = "True"
                  /\ call[c].post.files \cap ConfFiles = {}
                  /\ files \cap ConfFiles = {}

C10_Witness ==
    \E c \in Callers :
        /\ hotspot_config = DefaultConfig
        /\ Returned(c, "stop")
        /\ call[c].clean
        /\ call[c].ret = "True"
        /\ prev[c].op = "status"
        /\ prev[c].clean
        /\ prev[c].afterStart
        /\ prev[c].info = [active |-> TRUE, ssid |-> "pibridge",
                           ip_address |-> IpHotspot, clients |-> 0]
        /\ files = {}

\* C11 as stated. get_status never raises, and a status call in which a
\* probe (pgrep, ip addr show, arp) raised or exited non-zero reports
\* active = false.
C11_ProbeErrorInactive ==
    \A c \in Callers :
        Returned(c, "status") =>
            /\ call[c].ret = "Value"
            /\ ~call[c].clean => ~call[c].info.active

\* C11 as amended. get_status never raises: it returns a status object; on a
\* host where pgrep or `ip addr show` cannot run the status is inactive; a
\* failing `arp -an` leaves the status active and gives a client count of 0.
C11_StatusNeverRaises ==
    \A c \in Callers :
        Returned(c, "status") =>
            /\ call[c].ret = "Value"
            /\ probeFault # "none" => ~call[c].info.active
            /\ (probeFault = "none" /\ ~call[c].clean) =>
                  /\ call[c].info.active
                  /\ call[c].info.clients = 0
                  /\ call[c].log[Len(call[c].log)] = "arp -an"

C11_Witness ==
    \E c \in Callers :
        /\ Returned(c, "status")
        /\ probeFault = "none"
        /\ ~call[c].clean
        /\ arp # {}
        /\ call[c].info.active
        /\ call[c].info.clients = 0

\* What the claim expects of one lease line with at least 3 fields.
ExpectedRecord(parts) ==
    [mac |-> parts[2], ip |-> parts[3],
     hostname |-> IF Len(parts) > 3 THEN parts[4] ELSE Unknown,
     connected_since |->
        IF \A i \in 1..Len(parts[1]) : parts[1][i] \in AsciiDigits
        THEN <<"strftime">> \o StripZeros(parts[1])
        ELSE Unknown]

RECURSIVE ExpectedClients(_, _)
ExpectedClients(text, k) ==
    IF k > Len(text) THEN <<>>
    ELSE LET parts == split(text[k])
         IN (IF Len(parts) >= 3 THEN <<ExpectedRecord(parts)>> ELSE <<>>)
            \o ExpectedClients(text, k + 1)

\* The candidate files that are read successfully.
Readable == {i \in 1..Len(leases) : leases[i].ok}

FirstReadable == CHOOSE i \in Readable : \A j \in Readable : i <= j

\* C12. get_connected_clients returns, for the first candidate lease file
\* that is read, one record per line with at least 3 fields, in line order
\* (mac, ip, hostname or unknown, connected_since formatted or unknown when
\* field 1 is not all digits); lines with fewer fields are skipped; files
\* after that one are not asked for.
C12_LeaseParsing ==
    \A c \in Callers :
        (Returned(c, "clients") /\ Readable # {}) =>
            /\ call[c].info.clients =
                  ExpectedClients(leases[FirstReadable].text, 1)
            /\ Len(call[c].log) = FirstReadable

\* The commands of the pipeline that change the system, in the order of
\* start_hotspot.
StageOrder ==
    <<"nmcli dev disconnect", "ip addr flush", "ip addr add", "ip link set up",
      "write " \o HostapdConf, "write " \o DnsmasqConf,
      "launch hostapd", "launch dnsmasq">>

IsStage(cmd) == cmd \in Range(StageOrder)

Stages(log) == SelectSeq(log, IsStage)

IsPrefix(a, b) == Len(a) <= Len(b) /\ a = SubSeq(b, 1, Len(a))

\* The place of the first cmd in log; 0 when there is none.
IndexOf(log, cmd) ==
    IF cmd \in Range(log)
    THEN CHOOSE i \in 1..Len(log) :
            log[i] = cmd /\ \A j \in 1..(i - 1) : log[j] # cmd
    ELSE 0

\* C13. Pipeline order: the commands a start_hotspot call has issued are a
\* beginning of: privilege check, client disconnect, flush, add, link up,
\* hostapd config, dnsmasq config, hostapd launch, dnsmasq launch,
\* verification; each at most once; a call that returns True past the
\* already-active check has issued all of them and the verification probe last.
C13_PipelineOrder ==
    \A c \in Callers :
        call[c].op = "start" =>
            LET log == call[c].log
            IN /\ IsPrefix(Stages(log), StageOrder)
               /\ Stages(log) # <<>> =>
                     /\ IndexOf(log, "sudo -n true") > 0
                     /\ IndexOf(log, "sudo -n true") < IndexOf(log, StageOrder[1])
               /\ (Returned(c, "start") /\ call[c].ret = "True"
                       /\ call[c].firstActive = "False") =>
                     /\ Stages(log) = StageOrder
                     /\ SubSeq(log, Len(log) - 2, Len(log)) =
                           <<"pgrep dnsmasq", "pgrep hostapd", "ip addr show">>

C13_Witness ==
    \E c \in Callers :
        /\ Returned(c, "start")
        /\ call[c].ret = "True"
        /\ call[c].firstActive = "False"
        /\ Stages(call[c].log) = StageOrder

\* The command of the log of r that went wrong last, None when none has.
FailedCommand(r) == IF r.failed.at = 0 THEN None ELSE r.log[r.failed.at]

\* The launch command of the role has exited non-zero in the call r.
LaunchExitedNonZero(r, role) ==
    FailedCommand(r) = "launch " \o role /\ r.failed.stderr \in Captured

\* C14. A start_hotspot call in which the hostapd launch command exited
\* non-zero, or in which the probe after the launch found no hostapd
\* process, has not issued the dnsmasq launch command.
C14_NoDhcpAfterApFailure ==
    \A c \in Callers :
        (call[c].op = "start"
            /\ (LaunchExitedNonZero(call[c], "hostapd")
                \/ call[c].exc \in {"LaunchFailed hostapd", "ProcessNotFound hostapd"}))
        => "launch dnsmasq" \notin Range(call[c].log)

C14_Witness ==
    \E c \in Callers :
        /\ Returned(c, "start")
        /\ call[c].exc = "ProcessNotFound hostapd"
        /\ "launch hostapd" \in Range(call[c].log)
        /\ "launch dnsmasq" \notin Range(call[c].log)

\* C15. When start_hotspot has returned True, its last status probe found
\* the hotspot active (and the system is as that probe saw it); when the
\* verification after the settle period finds it not active, start_hotspot
\* runs the cleanup and raises the startup-verification failure.
C15_SuccessMeansVerified ==
    \A c \in Callers :
        /\ (Returned(c, "start") /\ call[c].ret = "True") =>
              /\ is_hotspot_active(procs, addrs, hotspot_config, probeFault)
              /\ SubSeq(call[c].log, Len(call[c].log) - 1, Len(call[c].log))
                    = <<"pgrep hostapd", "ip addr show">>
              /\ call[c].exc = None
        /\ (call[c].op = "start" /\ call[c].exc = "StartupVerificationFailed") =>
              /\ call[c].ret # "True"
              /\ call[c].pc \in {"s_except", "idle"} \cup CleanupPcs
              /\ call[c].pc = "idle" =>
                    /\ call[c].ret = "Raised"
                    /\ call[c].cleanupRuns = 1
                    /\ call[c].err =
                          <<"Failed to start hotspot", "StartupVerificationFailed">>

C15_Witness ==
    \E c \in Callers :
        /\ Returned(c, "start")
        /\ call[c].exc = "StartupVerificationFailed"
        /\ call[c].ret = "Raised"
        /\ call[c].cleanupRuns = 1
        /\ "launch dnsmasq" \in Range(call[c].log)

\* C16. When the launch command of a daemon exits non-zero, the daemon-start
\* step raises the launch-failure error of that daemon, whatever the command
\* has printed; the process-not-found error stands for a launch that exited
\* zero.
C16_LaunchFailureTyped ==
    \A c \in Callers, role \in Roles :
        call[c].op = "start" =>
            /\ LaunchExitedNonZero(call[c], role) =>
                  call[c].exc = "LaunchFailed " \o role
            /\ call[c].exc = "ProcessNotFound " \o role =>
                  ~LaunchExitedNonZero(call[c], role)

\* The errors of a failed interface configuration that are not the
\* permission-denied one.
ConfigFailedErrors == {"InterfaceConfigFailed", "AddAddressFailed", "LinkUpFailed"}

\* C17. In _configure_interface_ip a non-zero exit of the add-address or of
\* the link-up command is fatal, and the error raised is the
\* permission-denied one when the command's error output tells of a
\* permissions problem, an interface-configuration failure otherwise.
C17_ConfigFailureTyped ==
    \A c \in Callers :
        (call[c].op = "start"
            /\ FailedCommand(call[c]) \in {"ip addr add", "ip link set up"}
            /\ call[c].failed.stderr \in StderrKinds)
        => IF call[c].failed.stderr = "permission"
           THEN call[c].exc = "PermissionDenied"
           ELSE call[c].exc \in ConfigFailedErrors

\* C18. A failed address flush is not fatal: in a start_hotspot call in which
\* the flush has exited non-zero and no command has gone wrong since, on a
\* host that lacks nothing and whatever addresses the interface carried,
\* nothing has raised.
C18_FlushNotFatal ==
    \A c \in Callers :
        (call[c].op = "start" /\ probeFault = "none"
            /\ FailedCommand(call[c]) = "ip addr flush"
            /\ call[c].failed.stderr \in StderrKinds)
        => call[c].exc = None

\* The places of log after `from` that hold cmd.
PlacesAfter(log, from, cmd) == {k \in (from + 1)..Len(log) : log[k] = cmd}

\* C19. A start_hotspot call that has issued the hostapd launch command has,
\* before it and after its add-address and link-up commands, read the
\* addresses of the interface again, and the interface carries the
\* configured address; a call whose re-read did not show the address has
\* raised the verification failure and has launched no daemon.
C19_VerifiedBeforeLaunch ==
    \A c \in Callers :
        call[c].op = "start" =>
            LET log == call[c].log
                add == IndexOf(log, "ip addr add")
                up == IndexOf(log, "ip link set up")
                launch == IndexOf(log, "launch hostapd")
            IN /\ launch > 0 =>
                     /\ 0 < add /\ add < up /\ up < launch
                     /\ \E k \in PlacesAfter(log, up, "ip addr show") : k < launch
                     /\ ConfiguredIp(hotspot_config) \in addrs
               /\ call[c].exc = "VerificationFailed" =>
                     /\ launch = 0
                     /\ "launch dnsmasq" \notin Range(log)
               /\ (FailedCommand(call[c]) = "ip addr show"
                       /\ PlacesAfter(log, up, "ip addr show") # {} /\ up > 0) =>
                     launch = 0

C19_Witness ==
    \E c \in Callers :
        /\ Returned(c, "start")
        /\ call[c].exc = "VerificationFailed"
        /\ "ip link set up" \in Range(call[c].log)
        /\ "launch hostapd" \notin Range(call[c].log)

\* The privilege check at the beginning of the call r has failed.
PrivilegeCheckFailed(r) ==
    /\ FailedCommand(r) = "sudo -n true"
    /\ r.failed.at = IndexOf(r.log, "sudo -n true")

\* C20. A start_hotspot call whose first privilege check (sudo -n true)
\* failed fails with the privilege-required error, and has issued no client
\* disconnect, no flush, add or link-up, no config write and no daemon launch.
C20_PrivilegeRequired ==
    \A c \in Callers :
        call[c].op = "start" =>
            /\ PrivilegeCheckFailed(call[c]) =>
                  /\ call[c].exc = "PrivilegeRequired"
                  /\ Stages(call[c].log) = <<>>
            /\ call[c].exc = "PrivilegeRequired" =>
                  /\ Stages(call[c].log) = <<>>
                  /\ call[c].ret # "True"
                  /\ call[c].pc = "idle" =>
                        /\ call[c].ret = "Raised"
                        /\ call[c].err = <<"Failed to start hotspot", "PrivilegeRequired">>

C20_Witness ==
    \E c \in Callers :
        /\ Returned(c, "start")
        /\ call[c].exc = "PrivilegeRequired"
        /\ call[c].ret = "Raised"
        /\ Stages(call[c].log) = <<>>
        /\ "remove files" \in Range(call[c].log)

\* The config files the call r has created or overwritten.
WrittenBy(r) == {p \in ConfFiles : r.written[p].state # "none"}

LaunchCommands == {"launch hostapd", "launch dnsmasq"}

\* C21. When the write of either ephemeral config file fails, start_hotspot
\* aborts with the config-write failure, the call issues neither daemon
\* launch command, and once it has raised (the rollback has run) no config
\* file written by the call remains.
C21_ConfigWriteAborts ==
    \A c \in Callers :
        (call[c].op = "start" /\ call[c].exc = "ConfigWriteFailed") =>
            /\ Range(call[c].log) \cap LaunchCommands = {}
            /\ call[c].ret # "True"
            /\ call[c].pc = "idle" =>
                  /\ call[c].err = <<"Failed to start hotspot", "ConfigWriteFailed">>
                  /\ WrittenBy(call[c]) \cap files = {}

\* The managers that hold a handle of the role.
Holders(role) ==
    {c \in Callers :
        (IF role = "hostapd" THEN hostapd_process[c] ELSE dnsmasq_process[c]) # None}

\* C22. Daemon-handle invariant: at most one handle exists per daemon role,
\* and a start_hotspot that is about to issue, or has issued, the launch
\* command of a role holds no handle of that role.
C22_HandleInvariant ==
    /\ \A role \in Roles : Cardinality(Holders(role)) <= 1
    /\ \A c \in Callers :
          /\ call[c].pc = "l_hostapd" => c \notin Holders("hostapd")
          /\ call[c].pc = "l_dnsmasq" => c \notin Holders("dnsmasq")

C22_Witness ==
    \A c \in Callers :
        /\ call[c].op = "start"
        /\ call[c].pc = "l_dnsmasq"
        /\ "launch hostapd" \in Range(call[c].log)
        /\ Holders("hostapd") = {}

\* C23. The address _configure_interface_ip has assigned to the interface is
\* the configured ip_address, the value is_hotspot_active looks for, for
\* every configuration record, one without the ip_address key included.
C23_AssignedIpIsConfigured ==
    \A c \in Callers :
        (call[c].op = "start" /\ call[c].pc \in {"c_up", "c_verify"}) =>
            /\ HasKey(hotspot_config, "ip_address")
            /\ ConfiguredIp(hotspot_config) = hotspot_config.val.ip_address
            /\ hotspot_config.val.ip_address \in addrs

\* The number of times cmd is in log.
Times(log, cmd) == Cardinality({i \in 1..Len(log) : log[i] = cmd})

\* C24. Termination, every external command returning: a start_hotspot call
\* returns True or raises, a stop_hotspot call returns, and a cleanup run
\* (direct or as rollback) hands control back: the rollback is followed by
\* the raise, exactly one cleanup having run; no step is tried again.
C24_Termination ==
    /\ \A c \in Callers :
          (call[c].op = "start" /\ call[c].pc # "idle")
              ~> (Returned(c, "start") /\ call[c].ret \in {"True", "Raised"})
    /\ \A c \in Callers :
          (call[c].op = "stop" /\ call[c].pc # "idle")
              ~> (Returned(c, "stop") /\ call[c].ret \in {"True", "False"})
    /\ \A c \in Callers :
          (call[c].op = "start" /\ call[c].pc = "t_enter")
              ~> (Returned(c, "start") /\ call[c].ret = "Raised"
                    /\ call[c].cleanupRuns = 1)
    /\ [](\A c \in Callers :
            /\ call[c].cleanupRuns <= 1
            /\ \A cmd \in Range(StageOrder) \cup Teardown :
                  Times(call[c].log, cmd) <= 1)

C24_Witness ==
    \E c \in Callers :
        /\ Returned(c, "start")
        /\ call[c].ret = "Raised"
        /\ call[c].cleanupRuns = 1
        /\ call[c].stopRet = "False"
        /\ procs # NoProcs

\* The value of the line `key=` of a document.
DocValue(doc, key) == doc[CHOOSE i \in 1..Len(doc) : doc[i][1] = key][2]

\* The network name the claim expects in the AP daemon config.
ExpectedSsid(cfg) ==
    IF HasKey(cfg, "ssid") /\ cfg.val.ssid # "" THEN cfg.val.ssid ELSE "pibridge"

\* C25. Rendering gives a whole document for every configuration, and a
\* malformed field is replaced by its default: the hostapd config a call has
\* written holds ssid=pibridge when the ssid is empty or absent, the
\* configured ssid otherwise.
C25_RenderDefaults ==
    \A c \in Callers :
        call[c].written[HostapdConf].state = "full" =>
            /\ Len(call[c].written[HostapdConf].doc) = Len(HostapdDocument(DefaultConfig))
            /\ DocValue(call[c].written[HostapdConf].doc, "ssid")
                  = ExpectedSsid(hotspot_config)

\* C26. Whenever start_hotspot has returned True, on the full pipeline or at
\* the already-active check, a dnsmasq process runs.
C26_SuccessMeansDhcp ==
    \A c \in Callers :
        (Returned(c, "start") /\ call[c].ret = "True") => procs["dnsmasq"] > 0

\* C27. start_hotspot never issues the hostapd launch command while a hostapd
\* process runs, and after start_hotspot has returned at most one hostapd
\* process exists.
C27_SingleHostapd ==
    \A c \in Callers :
        /\ (call[c].op = "start" /\ call[c].pc = "l_hostapd") => procs["hostapd"] = 0
        /\ Returned(c, "start") => procs["hostapd"] <= 1

\* The call r is a start_hotspot that has failed without having issued a
\* daemon launch command.
FailedBeforeLaunch(r) ==
    r.op = "start" /\ r.exc # None /\ Range(r.log) \cap LaunchCommands = {}

\* A step of a call that has failed before any launch.
EarlyFailureStep(c) == FailedBeforeLaunch(call'[c]) /\ call'[c] # call[c]

ProcessesKept == \A c \in Callers : EarlyFailureStep(c) => procs' = procs

\* C28 as stated. A start_hotspot call that fails before it has launched any
\* daemon leaves every hostapd and dnsmasq process that ran before the call
\* running: no step of such a call changes the processes.
C28_ProcessesKept == [][ProcessesKept]_vars

NoProcessAdded ==
    \A c \in Callers :
        EarlyFailureStep(c) => \A role \in Roles : procs'[role] <= procs[role]

EarlyFailureSwept ==
    \A c \in Callers :
        (FailedBeforeLaunch(call[c]) /\ Returned(c, "start")) =>
            /\ call[c].ret = "Raised"
            /\ call[c].cleanupRuns = 1
            /\ "pkill hostapd" \in Range(call[c].log)
            /\ call[c].stopExc = None => Teardown \subseteq Range(call[c].log)

\* C28 as amended. A start_hotspot call that fails before it has launched any
\* daemon launches none and adds no process, and runs the cleanup once
\* before it raises: the kill-by-name sweep is issued, for both daemons
\* unless one of its commands raises, and may end processes that ran before
\* the call.
C28_EarlyFailureSweeps == [][NoProcessAdded]_vars /\ []EarlyFailureSwept

C28_Witness ==
    \E c \in Callers :
        /\ FailedBeforeLaunch(call[c])
        /\ call[c].exc = "PrivilegeRequired"
        /\ call[c].pc = "t_pkill_dnsmasq"
        /\ call[c].log = <<"pgrep hostapd", "sudo -n true", "pkill hostapd">>
        /\ prev[c].op = "none"
        /\ procs["dnsmasq"] > 0

\* C29. Every command a call has issued against a network interface, and the
\* interface= line of both config files it has written, name the interface
\* of the loaded configuration record, whatever that name is.
C29_ConfiguredInterface ==
    \A c \in Callers :
        HasKey(hotspot_config, "interface") =>
            /\ call[c].ifaces \subseteq {hotspot_config.val.interface}
            /\ \A p \in ConfFiles :
                  call[c].written[p].state = "full" =>
                      DocValue(call[c].written[p].doc, "interface")
                          = hotspot_config.val.interface

\* The text rfkill has printed tells of a soft or hard block.
ReportsBlocked(out) ==
    /\ out.exit = "ok"
    /\ \E i \in 1..Len(out.stdout) :
          \/ Contains(<<"Soft blocked: yes">>, out.stdout[i])
          \/ Contains(<<"Hard blocked: yes">>, out.stdout[i])

\* C30. The web start route answers "wireless blocked" (400) without calling
\* start_hotspot only when the rfkill query has reported the radio soft- or
\* hard-blocked; for every other outcome of the query, rfkill unavailable or
\* failing included, it calls start_hotspot.
C30_BlockedOnlyWhenReported ==
    \A c \in Callers :
        call[c].web =>
            /\ (call[c].op = "web_start" /\ call[c].http = "400")
                  => ReportsBlocked(call[c].rfkill)
            /\ ~ReportsBlocked(call[c].rfkill) => call[c].op = "start"

====
